---------------------------- MODULE Spec2Model ----------------------------
(***************************************************************************)
(* The RISC-V PLIC register accessor of src/src/lib.rs.                    *)
(*                                                                         *)
(* A u32 register value is the set of its set bit indices (a subset of     *)
(* 0 .. 31): `|` is \cup, `& !m` is \ m, `1 << i` is {i}, `!0` is 0 .. 31  *)
(* and `!= 0` is # {}.  A register block is the set of the absolute bit    *)
(* positions (word index * 32 + bit) that hold 1, so the 507904 enable     *)
(* words need not be enumerated.                                           *)
(***************************************************************************)
EXTENDS Integers, Sequences, FiniteSets, TLC

(***************************************************************************)
(* Constants of the source.                                                *)
(***************************************************************************)
COUNT_SOURCE == 1024

COUNT_CONTEXT == 15872

U32_BITS == 32

SizeOfU32 == 4

PageAlign == 4096

Reserved1Len == 57344

(***************************************************************************)
(* Bounds of the model.                                                    *)
(***************************************************************************)
\* sources 1 .. MaxSource are exercised besides the last one
MaxSource == 2

\* contexts 0 .. MaxContext - 1 are exercised besides the last one
MaxContext == 1

\* calls each mutator of the one-mutator-per-context discipline makes
MaxCalls == 2

(***************************************************************************)
(* u32 helpers.                                                            *)
(***************************************************************************)
AllOnes == 0 .. (U32_BITS - 1)

RECURSIVE BitsFrom(_, _)
\* the set bits of n, the lowest of which counts as bit i
BitsFrom(n, i) ==
    IF n = 0 THEN {}
    ELSE (IF n % 2 = 1 THEN {i} ELSE {}) \cup BitsFrom(n \div 2, i + 1)

\* the bits of the u32 holding the number n (n < 2^31)
ToBits(n) == BitsFrom(n, 0) \cap AllOnes

RECURSIVE SumBits(_)
SumBits(b) == IF b = {} THEN 0
              ELSE LET i == CHOOSE x \in b : TRUE
                   IN  2 ^ i + SumBits(b \ {i})

\* the number a u32 holds (used for ids, which are below 2^31)
FromBits(b) == SumBits(b)

\* unsigned a > b
Gt(a, b) == \E i \in a \ b : \A j \in b \ a : j < i

\* the word at index idx of a block
Word(mem, idx) ==
    {p - idx * U32_BITS : p \in {q \in mem : q \div U32_BITS = idx}}

\* the block after word idx is overwritten by value
WriteWord(mem, idx, value) ==
    {q \in mem : q \div U32_BITS # idx}
        \cup {idx * U32_BITS + b : b \in value \cap AllOnes}

(***************************************************************************)
(* Layout: #[repr(C)] places each field at the next multiple of its        *)
(* alignment and rounds the size up to the alignment of the struct.        *)
(***************************************************************************)
AlignUp(n, a) == ((n + a - 1) \div a) * a

RECURSIVE EndOf(_, _)
\* the offset just past field k of a #[repr(C)] struct (0 for k = 0)
EndOf(fields, k) ==
    IF k = 0 THEN 0
    ELSE AlignUp(EndOf(fields, k - 1), fields[k].align) + fields[k].size

OffsetOf(fields, k) == AlignUp(EndOf(fields, k - 1), fields[k].align)

SizeOfStruct(fields, align) == AlignUp(EndOf(fields, Len(fields)), align)

SizeOfPriorities == COUNT_SOURCE * SizeOfU32

PendingLen == COUNT_SOURCE \div U32_BITS

SizeOfPendingBits == PendingLen * SizeOfU32

EnablesLen == (COUNT_SOURCE * COUNT_CONTEXT) \div U32_BITS

SizeOfEnables == EnablesLen * SizeOfU32

ContextLocalFields ==
    << [size |-> SizeOfU32, align |-> SizeOfU32],
       [size |-> SizeOfU32, align |-> SizeOfU32],
       [size |-> 4096 - 2 * SizeOfU32, align |-> 1] >>

SizeOfContextLocal == SizeOfStruct(ContextLocalFields, PageAlign)

\* the map with a _reserved1 of 0xf000 bytes
PlicFieldsLongReserved1 ==
    << [size |-> SizeOfPriorities, align |-> SizeOfU32],
       [size |-> SizeOfPendingBits, align |-> SizeOfU32],
       [size |-> 4096 - SizeOfPendingBits, align |-> 1],
       [size |-> SizeOfEnables, align |-> SizeOfU32],
       [size |-> Reserved1Len + 4096, align |-> 1],
       [size |-> COUNT_CONTEXT * SizeOfContextLocal, align |-> PageAlign] >>

PlicFields ==
    << [size |-> SizeOfPriorities, align |-> SizeOfU32],
       [size |-> SizeOfPendingBits, align |-> SizeOfU32],
       [size |-> 4096 - SizeOfPendingBits, align |-> 1],
       [size |-> SizeOfEnables, align |-> SizeOfU32],
       [size |-> Reserved1Len, align |-> 1],
       [size |-> COUNT_CONTEXT * SizeOfContextLocal, align |-> PageAlign] >>

SizeOfPlic == SizeOfStruct(PlicFields, PageAlign)

OffPriorities == OffsetOf(PlicFields, 1)

OffPendingBits == OffsetOf(PlicFields, 2)

OffEnables == OffsetOf(PlicFields, 4)

OffContextLocal == OffsetOf(PlicFields, 6)

\* byte offsets of the registers
PriorityAddr(idx) == OffPriorities + idx * SizeOfU32

PendingAddr(group) == OffPendingBits + group * SizeOfU32

EnableAddr(group) == OffEnables + group * SizeOfU32

ThresholdAddr(context) ==
    OffContextLocal + context * SizeOfContextLocal
        + OffsetOf(ContextLocalFields, 1)

ClaimAddr(context) ==
    OffContextLocal + context * SizeOfContextLocal
        + OffsetOf(ContextLocalFields, 2)


(***************************************************************************)
(* State.                                                                  *)
(***************************************************************************)
VARIABLES
    priorities,          \* Plic.priorities: set bits of the priority words
    pending_bits,        \* Plic.pending_bits: set bits of the pending words
    enables,             \* Plic.enables: set bits of the enable words
    priority_threshold,  \* ContextLocal.priority_threshold, by context
    in_service,          \* device: <<source, context>> claimed, not completed
    hwPriorityBits,      \* device: implemented bits of a priority register
    hwThresholdBits,     \* device: implemented bits of a threshold register
    last,                \* the last call (or interrupt raised): arguments,
                         \* result, register accesses in order
    panicked,            \* a call ended in a panic
    pc,                  \* mutator -> "idle" | "write" (inside enable/disable)
    call,                \* mutator -> the enable/disable call it is inside
    tmp,                 \* mutator -> the word its read_volatile returned
    ncalls,              \* mutator -> calls begun
    want                 \* <<source, context>> -> TRUE when the last call begun
                         \* for the pair is an enable, FALSE when a disable

registers == <<priorities, pending_bits, enables, priority_threshold>>

device == <<in_service, hwPriorityBits, hwThresholdBits>>

mutators == <<pc, call, tmp, ncalls, want>>

vars == <<registers, device, last, panicked, mutators>>

NoArg == 0 - 1

NoCall == [op |-> "none", source |-> NoArg, context |-> NoArg]

Mutators == {1, 2}

\* a call's record
Called(op, source, context, value, ret, flag, acc) ==
    [op |-> op, source |-> source, context |-> context, value |-> value,
     ret |-> ret, flag |-> flag, acc |-> acc]

Rd(addr, value) == [rw |-> "r", addr |-> addr, value |-> value]

Wr(addr, value) == [rw |-> "w", addr |-> addr, value |-> value]

InitWith(pbits, tbits) ==
    /\ priorities = {}
    /\ pending_bits = {}
    /\ enables = {}
    /\ priority_threshold = {}
    /\ in_service = {}
    /\ hwPriorityBits \in pbits
    /\ hwThresholdBits \in tbits
    /\ last = Called("none", NoArg, NoArg, {}, {}, FALSE, <<>>)
    /\ panicked = FALSE
    /\ pc = [m \in Mutators |-> "idle"]
    /\ call = [m \in Mutators |-> NoCall]
    /\ tmp = [m \in Mutators |-> {}]
    /\ ncalls = [m \in Mutators |-> 0]
    /\ want = <<>>

(***************************************************************************)
(* The device behind the registers.                                        *)
(***************************************************************************)
\* what a priority register holds after value is written to it
PriorityStored(value) == value \cap hwPriorityBits

\* what a threshold register holds after value is written to it
ThresholdStored(value) == value \cap hwThresholdBits

PendingSources == {p \in pending_bits : p \in 1 .. (COUNT_SOURCE - 1)}

\* source can be claimed in context
Eligible(source, context) ==
    /\ source \in PendingSources
    /\ context * COUNT_SOURCE + source \in enables
    /\ Gt(Word(priorities, source), Word(priority_threshold, context))

\* the sources a read of context's claim register may return
ClaimCandidates(context) ==
    {s \in PendingSources :
        /\ Eligible(s, context)
        /\ \A t \in PendingSources :
              Eligible(t, context)
                  => ~Gt(Word(priorities, t), Word(priorities, s))}

\* the gateway of source raises its interrupt
raise(source) ==
    /\ ~panicked
    /\ source \notin PendingSources
    /\ \A p \in in_service : p[1] # source
    /\ pending_bits' = pending_bits \cup {source}
    /\ last' = Called("raise", source, NoArg, {}, {}, FALSE, <<>>)
    /\ UNCHANGED <<priorities, enables, priority_threshold, device,
                   panicked, mutators>>

(***************************************************************************)
(* Panics of the accessor.                                                 *)
(***************************************************************************)
\* <u32 as InterruptSource>::id panics on zero
IdPanics(source) == source = 0

\* indexing an array panics out of bounds
IndexPanics(index, len) == ~(0 <= index /\ index < len)

Panic(op, source, context, value) ==
    /\ panicked' = TRUE
    /\ last' = Called(op, source, context, value, {}, FALSE, <<>>)
    /\ UNCHANGED <<registers, device, mutators>>


(***************************************************************************)
(* Priority block.                                                         *)
(***************************************************************************)
\* an index one too low
PriorityIndexOffByOne(source) == source - 1

\* the index source.id().get() as usize
PriorityIndex(source) == source

\* a probe that writes 0
ProbeValueZero == {}

\* the value probe_priority_bits and probe_threshold_bits write: !0
ProbeValue == AllOnes

set_priority(source, value) ==
    /\ ~panicked
    /\ IF IdPanics(source) \/ IndexPanics(PriorityIndex(source), COUNT_SOURCE)
       THEN Panic("set_priority", source, NoArg, value)
       ELSE LET idx == PriorityIndex(source)
            IN  /\ priorities' = WriteWord(priorities, idx, PriorityStored(value))
                /\ last' = Called("set_priority", source, NoArg, value, {}, FALSE,
                                  <<Wr(PriorityAddr(idx), value)>>)
                /\ UNCHANGED <<pending_bits, enables, priority_threshold,
                               device, panicked, mutators>>

get_priority(source) ==
    /\ ~panicked
    /\ IF IdPanics(source) \/ IndexPanics(PriorityIndex(source), COUNT_SOURCE)
       THEN Panic("get_priority", source, NoArg, {})
       ELSE LET idx == PriorityIndex(source)
                got == Word(priorities, idx)
            IN  /\ last' = Called("get_priority", source, NoArg, {}, got, FALSE,
                                  <<Rd(PriorityAddr(idx), got)>>)
                /\ UNCHANGED <<registers, device, panicked, mutators>>

probe_priority_bits(source) ==
    /\ ~panicked
    /\ IF IdPanics(source) \/ IndexPanics(PriorityIndex(source), COUNT_SOURCE)
       THEN Panic("probe_priority_bits", source, NoArg, {})
       ELSE LET idx == PriorityIndex(source)
                after == WriteWord(priorities, idx, PriorityStored(ProbeValue))
                got == Word(after, idx)
            IN  /\ priorities' = after
                /\ last' = Called("probe_priority_bits", source, NoArg, {}, got,
                                  FALSE,
                                  <<Wr(PriorityAddr(idx), ProbeValue),
                                    Rd(PriorityAddr(idx), got)>>)
                /\ UNCHANGED <<pending_bits, enables, priority_threshold,
                               device, panicked, mutators>>

(***************************************************************************)
(* Pending block.                                                          *)
(***************************************************************************)
is_pending(source) ==
    /\ ~panicked
    /\ IF IdPanics(source) \/ IndexPanics(source \div U32_BITS, PendingLen)
       THEN Panic("is_pending", source, NoArg, {})
       ELSE LET group == source \div U32_BITS
                index == source % U32_BITS
                got == Word(pending_bits, group)
            IN  /\ last' = Called("is_pending", source, NoArg, {}, {},
                                  (got \cap {index}) # {},
                                  <<Rd(PendingAddr(group), got)>>)
                /\ UNCHANGED <<registers, device, panicked, mutators>>

(***************************************************************************)
(* Enable block.                                                           *)
(***************************************************************************)
\* the position of the earlier revisions: source * context
EnablePosProduct(source, context) == source * context

\* pos = context * COUNT_SOURCE + source
EnablePos(source, context) == context * COUNT_SOURCE + source

\* a write of the mask alone: 1 << index
EnableWordClobber(word, index) == {index}

\* ptr.read_volatile() | (1 << index)
EnableWord(word, index) == word \cup {index}

\* ptr.read_volatile() & !(1 << index)
DisableWord(word, index) == word \ {index}

\* the word written back by the call op
Modified(op, word, index) ==
    IF op = "enable" THEN EnableWord(word, index) ELSE DisableWord(word, index)

\* enable and disable on the pending words instead of the enable words
read_modify_write_pending(op, source, context) ==
    /\ ~panicked
    /\ IF IdPanics(source)
          \/ IndexPanics(EnablePos(source, context) \div U32_BITS, PendingLen)
       THEN Panic(op, source, context, {})
       ELSE LET pos == EnablePos(source, context)
                group == pos \div U32_BITS
                index == pos % U32_BITS
                got == Word(pending_bits, group)
                put == Modified(op, got, index)
            IN  /\ pending_bits' = WriteWord(pending_bits, group, put)
                /\ last' = Called(op, source, context, {}, {}, FALSE,
                                  <<Rd(PendingAddr(group), got),
                                    Wr(PendingAddr(group), put)>>)
                /\ UNCHANGED <<priorities, enables, priority_threshold,
                               device, panicked, mutators>>

\* enable and disable, the read and the write in one step (sequential use)
read_modify_write(op, source, context) ==
    /\ ~panicked
    /\ IF IdPanics(source)
          \/ IndexPanics(EnablePos(source, context) \div U32_BITS, EnablesLen)
       THEN Panic(op, source, context, {})
       ELSE LET pos == EnablePos(source, context)
                group == pos \div U32_BITS
                index == pos % U32_BITS
                got == Word(enables, group)
                put == Modified(op, got, index)
            IN  /\ enables' = WriteWord(enables, group, put)
                /\ last' = Called(op, source, context, {}, {}, FALSE,
                                  <<Rd(EnableAddr(group), got),
                                    Wr(EnableAddr(group), put)>>)
                /\ UNCHANGED <<priorities, pending_bits, priority_threshold,
                               device, panicked, mutators>>

enable(source, context) == read_modify_write("enable", source, context)

disable(source, context) == read_modify_write("disable", source, context)

is_enabled(source, context) ==
    /\ ~panicked
    /\ IF IdPanics(source)
          \/ IndexPanics(EnablePos(source, context) \div U32_BITS, EnablesLen)
       THEN Panic("is_enabled", source, context, {})
       ELSE LET pos == EnablePos(source, context)
                group == pos \div U32_BITS
                index == pos % U32_BITS
                got == Word(enables, group)
            IN  /\ last' = Called("is_enabled", source, context, {}, {},
                                  (got \cap {index}) # {},
                                  <<Rd(EnableAddr(group), got)>>)
                /\ UNCHANGED <<registers, device, panicked, mutators>>

(***************************************************************************)
(* Context-local block.                                                    *)
(***************************************************************************)
\* an index one too high
ContextIndexOffByOne(context) == context + 1

\* the index context.index()
ContextIndex(context) == context

get_threshold(context) ==
    /\ ~panicked
    /\ IF IndexPanics(ContextIndex(context), COUNT_CONTEXT)
       THEN Panic("get_threshold", NoArg, context, {})
       ELSE LET idx == ContextIndex(context)
                got == Word(priority_threshold, idx)
            IN  /\ last' = Called("get_threshold", NoArg, context, {}, got, FALSE,
                                  <<Rd(ThresholdAddr(idx), got)>>)
                /\ UNCHANGED <<registers, device, panicked, mutators>>

set_threshold(context, value) ==
    /\ ~panicked
    /\ IF IndexPanics(ContextIndex(context), COUNT_CONTEXT)
       THEN Panic("set_threshold", NoArg, context, value)
       ELSE LET idx == ContextIndex(context)
            IN  /\ priority_threshold' =
                       WriteWord(priority_threshold, idx, ThresholdStored(value))
                /\ last' = Called("set_threshold", NoArg, context, value, {},
                                  FALSE, <<Wr(ThresholdAddr(idx), value)>>)
                /\ UNCHANGED <<priorities, pending_bits, enables, device,
                               panicked, mutators>>

probe_threshold_bits(context) ==
    /\ ~panicked
    /\ IF IndexPanics(ContextIndex(context), COUNT_CONTEXT)
       THEN Panic("probe_threshold_bits", NoArg, context, {})
       ELSE LET idx == ContextIndex(context)
                after == WriteWord(priority_threshold, idx,
                                   ThresholdStored(ProbeValue))
                got == Word(after, idx)
            IN  /\ priority_threshold' = after
                /\ last' = Called("probe_threshold_bits", NoArg, context, {},
                                  got, FALSE,
                                  <<Wr(ThresholdAddr(idx), ProbeValue),
                                    Rd(ThresholdAddr(idx), got)>>)
                /\ UNCHANGED <<priorities, pending_bits, enables, device,
                               panicked, mutators>>

\* the device's answer to a read of idx's claim register: 0, or a candidate,
\* whose pending bit the read clears
ClaimRead(idx, source) ==
    IF ClaimCandidates(idx) = {}
    THEN /\ source = 0
         /\ UNCHANGED <<pending_bits, in_service>>
    ELSE /\ source \in ClaimCandidates(idx)
         /\ pending_bits' = pending_bits \ {source}
         /\ in_service' = in_service \cup {<<source, idx>>}

\* the device's answer to a write of id to idx's claim register
CompleteWrite(idx, id) == in_service' = in_service \ {<<id, idx>>}

\* a claim that reads priority_threshold instead of claim_or_completion
claim_reads_threshold(context) ==
    /\ ~panicked
    /\ IF IndexPanics(ContextIndex(context), COUNT_CONTEXT)
       THEN Panic("claim", NoArg, context, {})
       ELSE LET idx == ContextIndex(context)
                got == Word(priority_threshold, idx)
            IN  /\ last' = Called("claim", NoArg, context, {}, got, got # {},
                                  <<Rd(ThresholdAddr(idx), got)>>)
                /\ UNCHANGED <<registers, device, panicked, mutators>>

claim(context) ==
    /\ ~panicked
    /\ IF IndexPanics(ContextIndex(context), COUNT_CONTEXT)
       THEN Panic("claim", NoArg, context, {})
       ELSE LET idx == ContextIndex(context)
            IN  \E s \in ClaimCandidates(idx) \cup {0} :
                  /\ ClaimRead(idx, s)
                  \* NonZeroU32::new: None for 0 (flag: is Some)
                  /\ last' = Called("claim", NoArg, context, {}, ToBits(s),
                                    ToBits(s) # {},
                                    <<Rd(ClaimAddr(idx), ToBits(s))>>)
                  /\ UNCHANGED <<priorities, enables, priority_threshold,
                                 hwPriorityBits, hwThresholdBits, panicked,
                                 mutators>>

complete(context, source) ==
    /\ ~panicked
    /\ IF IndexPanics(ContextIndex(context), COUNT_CONTEXT) \/ IdPanics(source)
       THEN Panic("complete", source, context, {})
       ELSE LET idx == ContextIndex(context)
            IN  /\ CompleteWrite(idx, FromBits(ToBits(source)))
                /\ last' = Called("complete", source, context, {}, {}, FALSE,
                                  <<Wr(ClaimAddr(idx), ToBits(source))>>)
                /\ UNCHANGED <<registers, hwPriorityBits, hwThresholdBits,
                               panicked, mutators>>


(***************************************************************************)
(* enable and disable as the two volatile accesses they are, for mutators  *)
(* that run concurrently (Plic is Sync): the read, then the write.         *)
(***************************************************************************)
\* mutator m enters op(source, context) and does its read_volatile
begin(m, op, source, context) ==
    /\ ~panicked
    /\ pc[m] = "idle"
    /\ ncalls[m] < MaxCalls
    /\ IF IdPanics(source)
          \/ IndexPanics(EnablePos(source, context) \div U32_BITS, EnablesLen)
       THEN Panic(op, source, context, {})
       ELSE LET pos == EnablePos(source, context)
                group == pos \div U32_BITS
            IN  /\ tmp' = [tmp EXCEPT ![m] = Word(enables, group)]
                /\ call' = [call EXCEPT ![m] =
                               [op |-> op, source |-> source, context |-> context]]
                /\ pc' = [pc EXCEPT ![m] = "write"]
                /\ ncalls' = [ncalls EXCEPT ![m] = @ + 1]
                /\ want' = [p \in DOMAIN want \cup {<<source, context>>} |->
                               IF p = <<source, context>> THEN op = "enable"
                               ELSE want[p]]
                /\ UNCHANGED <<registers, device, last, panicked>>

\* a write that modifies the word as it is now, not as it was read
finish_atomic(m) ==
    /\ ~panicked
    /\ pc[m] = "write"
    /\ LET pos == EnablePos(call[m].source, call[m].context)
           group == pos \div U32_BITS
           index == pos % U32_BITS
       IN  enables' = WriteWord(enables, group,
                                Modified(call[m].op, Word(enables, group), index))
    /\ pc' = [pc EXCEPT ![m] = "idle"]
    /\ UNCHANGED <<priorities, pending_bits, priority_threshold, device, last,
                   panicked, call, tmp, ncalls, want>>

\* mutator m does its write_volatile and returns
finish(m) ==
    /\ ~panicked
    /\ pc[m] = "write"
    /\ LET pos == EnablePos(call[m].source, call[m].context)
           group == pos \div U32_BITS
           index == pos % U32_BITS
       IN  enables' = WriteWord(enables, group,
                                Modified(call[m].op, tmp[m], index))
    /\ pc' = [pc EXCEPT ![m] = "idle"]
    /\ UNCHANGED <<priorities, pending_bits, priority_threshold, device, last,
                   panicked, call, tmp, ncalls, want>>

(***************************************************************************)
(* Sequential use within the preconditions: every operation, one call at a *)
(* time, and the interrupt gateways.                                       *)
(***************************************************************************)
Sources == {1, 2}

Contexts == {0, 1}

Values == {{}, {0}, AllOnes}

\* devices that implement one bit, two bits or every bit of a register
OneBit == {0}

TwoBits == {0, 1}

Init == InitWith({TwoBits}, {OneBit})

Next ==
    \/ \E s \in Sources, v \in Values : set_priority(s, v)
    \/ \E s \in Sources : get_priority(s)
    \/ \E s \in Sources : probe_priority_bits(s)
    \/ \E s \in Sources : is_pending(s)
    \/ \E s \in Sources, c \in Contexts : enable(s, c)
    \/ \E s \in Sources, c \in Contexts : disable(s, c)
    \/ \E s \in Sources, c \in Contexts : is_enabled(s, c)
    \/ \E c \in Contexts : get_threshold(c)
    \/ \E c \in Contexts, v \in Values : set_threshold(c, v)
    \/ \E c \in Contexts : probe_threshold_bits(c)
    \/ \E c \in Contexts : claim(c)
    \/ \E c \in Contexts, s \in Sources : complete(c, s)
    \/ \E s \in Sources : raise(s)

Spec == Init /\ [][Next]_vars

(***************************************************************************)
(* Calls at and beyond the ends of the ranges.                             *)
(***************************************************************************)
BoundarySources == {0, 1, COUNT_SOURCE}

BoundaryContexts == {0, COUNT_CONTEXT - 1, COUNT_CONTEXT}

BoundaryValues == {AllOnes}

InitBoundary == InitWith({TwoBits}, {TwoBits})

NextBoundary ==
    \/ \E s \in BoundarySources, v \in BoundaryValues : set_priority(s, v)
    \/ \E s \in BoundarySources : get_priority(s)
    \/ \E s \in BoundarySources : probe_priority_bits(s)
    \/ \E s \in BoundarySources : is_pending(s)
    \/ \E s \in BoundarySources, c \in BoundaryContexts : enable(s, c)
    \/ \E s \in BoundarySources, c \in BoundaryContexts : disable(s, c)
    \/ \E s \in BoundarySources, c \in BoundaryContexts : is_enabled(s, c)
    \/ \E c \in BoundaryContexts : get_threshold(c)
    \/ \E c \in BoundaryContexts, v \in BoundaryValues : set_threshold(c, v)
    \/ \E c \in BoundaryContexts : probe_threshold_bits(c)
    \/ \E c \in BoundaryContexts : claim(c)
    \/ \E c \in BoundaryContexts, s \in BoundarySources : complete(c, s)

SpecBoundary == InitBoundary /\ [][NextBoundary]_vars

(***************************************************************************)
(* The priority block alone, on devices of several priority widths.        *)
(***************************************************************************)
PrioritySources == (1 .. MaxSource) \cup {COUNT_SOURCE - 1}

PriorityValues == {{}, {0}, {1, 2}, {U32_BITS - 1}, AllOnes}

InitPriority == InitWith({OneBit, {0, 1, 2}, AllOnes}, {AllOnes})

NextPriority ==
    \/ \E s \in PrioritySources, v \in PriorityValues : set_priority(s, v)
    \/ \E s \in PrioritySources : get_priority(s)
    \/ \E s \in PrioritySources : probe_priority_bits(s)

SpecPriority == InitPriority /\ [][NextPriority]_vars

(***************************************************************************)
(* The enable block alone, one call at a time.                             *)
(***************************************************************************)
EnableSources == {1, U32_BITS - 1, U32_BITS, COUNT_SOURCE - 1}

EnableContexts == (0 .. (MaxContext - 1)) \cup {COUNT_CONTEXT - 1}

InitEnable == InitWith({AllOnes}, {AllOnes})

NextEnable ==
    \/ \E s \in EnableSources, c \in EnableContexts : enable(s, c)
    \/ \E s \in EnableSources, c \in EnableContexts : disable(s, c)
    \/ \E s \in EnableSources, c \in EnableContexts : is_enabled(s, c)

SpecEnable == InitEnable /\ [][NextEnable]_vars

(***************************************************************************)
(* Two unsynchronized mutators of the same contexts.                       *)
(***************************************************************************)
\* the sources mutator m enables and disables: never one of the other's
RaceSources(m) == IF m = 1 THEN {1, U32_BITS + 1} ELSE {2}

RaceContexts == {0, COUNT_CONTEXT - 1}

NextRace ==
    \/ \E m \in Mutators, c \in RaceContexts :
          \E s \in RaceSources(m) : begin(m, "enable", s, c)
    \/ \E m \in Mutators, c \in RaceContexts :
          \E s \in RaceSources(m) : begin(m, "disable", s, c)
    \/ \E m \in Mutators : finish(m)

SpecRace == InitEnable /\ [][NextRace]_vars

(***************************************************************************)
(* One mutator per context.                                                *)
(***************************************************************************)
\* the context mutator m owns: adjacent contexts, whose words are adjacent
OwnContext(m) == m - 1

OwnSources == {1, COUNT_SOURCE - 1}

NextOwn ==
    \/ \E m \in Mutators, s \in OwnSources : begin(m, "enable", s, OwnContext(m))
    \/ \E m \in Mutators, s \in OwnSources : begin(m, "disable", s, OwnContext(m))
    \/ \E m \in Mutators : finish(m)

SpecOwn == InitEnable /\ [][NextOwn]_vars


(***************************************************************************)
(* Properties.                                                             *)
(***************************************************************************)
PriorityOps == {"set_priority", "get_priority", "probe_priority_bits"}

EnableOps == {"enable", "disable", "is_enabled"}

ThresholdOps == {"get_threshold", "set_threshold", "probe_threshold_bits"}

ClaimOps == {"claim", "complete"}

\* C1: a call with source 0, source 1024 or context 15872 panics and
\* accesses no register.
C1_BoundaryCallPanics ==
    (last.source \in {0, 1024} \/ last.context = 15872)
        => (panicked /\ last.acc = <<>>)

\* the byte offset the layout table gives the register a call accesses
TableAddr(c) ==
    IF c.op \in PriorityOps THEN 4 * c.source
    ELSE IF c.op = "is_pending" THEN 4096 + 4 * (c.source \div 32)
    ELSE IF c.op \in EnableOps
         THEN 8192 + 4 * ((c.context * 1024 + c.source) \div 32)
    ELSE IF c.op \in ThresholdOps THEN 2097152 + 4096 * c.context
    ELSE 2097152 + 4096 * c.context + 4

\* C2: the fields lie at 0, 0x1000, 0x2000 and 0x200000, the map is
\* 0x200000 + 15872 * 4096 bytes, every context block is 4096 bytes and
\* 4096-aligned, and every access goes to the offset of the table.
C2_Layout ==
    /\ OffPriorities = 0
    /\ OffPendingBits = 4096
    /\ OffEnables = 8192
    /\ OffContextLocal = 2097152
    /\ SizeOfContextLocal = 4096
    /\ SizeOfPlic = 2097152 + 15872 * 4096
    /\ \A i \in 1 .. Len(last.acc) :
          /\ last.acc[i].addr = TableAddr(last)
          /\ last.acc[i].addr + 4 <= SizeOfPlic
          /\ last.op \in ThresholdOps => last.acc[i].addr % 4096 = 0

\* C2 witness: the claim register of the last context was read.
C2_LastContextClaimed ==
    /\ last.op = "claim"
    /\ last.context = 15871
    /\ ~panicked
    /\ last.acc[1].addr = 2097152 + 15871 * 4096 + 4

\* C3 as stated: get_priority(id) right after set_priority(id, v) returns v.
C3_RoundTripAnyValue ==
    [][(last.op = "set_priority" /\ last'.op = "get_priority"
            /\ last'.source = last.source /\ ~panicked')
         => last'.ret = last.value]_vars

\* C3 amended: get_priority(id) right after set_priority(id, v) returns the
\* bits of v the device implements (v itself when it implements them all),
\* 0 after set_priority(id, 0), and set_priority(id, v) changes the
\* priority of no other source.
C3_RoundTripImplementedBits ==
    /\ [][(last.op = "set_priority" /\ last'.op = "get_priority"
              /\ last'.source = last.source /\ ~panicked')
            => /\ last'.ret = last.value \cap hwPriorityBits
               /\ last.value \subseteq hwPriorityBits => last'.ret = last.value
               /\ last.value = {} => last'.ret = {}]_vars
    /\ [][(last'.op = "set_priority" /\ ~panicked')
            => \A t \in PrioritySources \ {last'.source} :
                  Word(priorities', t) = Word(priorities, t)]_vars

\* C3 witness: a priority of which the device drops a bit was read back,
\* beside another source's priority.
C3_TruncatedReadBack ==
    /\ last.op = "get_priority"
    /\ last.ret = {0}
    /\ hwPriorityBits = {0}
    /\ \E t \in PrioritySources \ {last.source} : Word(priorities, t) # {}

\* C4: enable(a, x) sets and disable(a, x) clears bit (x * 1024 + a) % 32 of
\* enable word (x * 1024 + a) / 32, is_enabled(a, x) then answers true
\* (false), and no other pair's bit changes.
C4_EnableBit ==
    /\ [][(last'.op \in {"enable", "disable"} /\ ~panicked')
            => LET pos == last'.context * 1024 + last'.source
                   on == last'.op = "enable"
               IN  /\ (pos \in enables') = on
                   /\ last'.acc[1].addr = 8192 + 4 * (pos \div 32)
                   /\ last'.acc[2].addr = 8192 + 4 * (pos \div 32)
                   /\ last'.acc[2].value =
                          IF on THEN last'.acc[1].value \cup {pos % 32}
                          ELSE last'.acc[1].value \ {pos % 32}
                   /\ \A b \in EnableSources, y \in EnableContexts :
                         <<b, y>> # <<last'.source, last'.context>>
                            => ((y * 1024 + b \in enables')
                                   = (y * 1024 + b \in enables))]_vars
    /\ [][(last.op \in {"enable", "disable"} /\ last'.op = "is_enabled"
              /\ last'.source = last.source /\ last'.context = last.context)
            => last'.flag = (last.op = "enable")]_vars

\* C4 witness: source 1 of context 0 was disabled while source 31, in the
\* same word, stays enabled.
C4_NeighbourKept ==
    /\ last.op = "disable"
    /\ last.source = 1
    /\ last.context = 0
    /\ 1 \notin enables
    /\ 31 \in enables

\* C5: probe_priority_bits(id) writes all-ones, then reads; it returns the
\* implemented bits, the priority stays at that value, and get_priority(id)
\* right after it returns the same.
C5_Probe ==
    /\ [](last.op = "probe_priority_bits" /\ ~panicked
            => /\ Len(last.acc) = 2
               /\ last.acc[1] = Wr(4 * last.source, AllOnes)
               /\ last.acc[2] = Rd(4 * last.source, last.ret)
               /\ last.ret = hwPriorityBits
               /\ last.ret \subseteq AllOnes
               /\ Word(priorities, last.source) = last.ret)
    /\ [][(last.op = "probe_priority_bits" /\ last'.op = "get_priority"
              /\ last'.source = last.source /\ ~panicked')
            => last'.ret = last.ret]_vars

\* C5 witness: a probe returned fewer than all bits and left them as the
\* priority.
C5_ProbedThreeBits ==
    /\ last.op = "probe_priority_bits"
    /\ last.ret = {0, 1, 2}
    /\ Word(priorities, last.source) = {0, 1, 2}


PublicOps == PriorityOps \cup EnableOps \cup ThresholdOps \cup ClaimOps
                 \cup {"is_pending"}

\* the source id a claim returned (0 for none)
Returned(c) == FromBits(c.ret)

\* source is pending, enabled in context and above its threshold
Claimable(source, context) ==
    /\ source \in pending_bits
    /\ context * 1024 + source \in enables
    /\ Gt(Word(priorities, source), Word(priority_threshold, context))

\* C6: no public operation but claim changes a pending bit, and claim
\* clears the pending bit of the source it returns and no other.
C6_PendingReadOnly ==
    /\ [][(last'.op \in PublicOps \ {"claim"}) => pending_bits' = pending_bits]_vars
    /\ [][(last'.op = "claim")
            => pending_bits' = pending_bits \ {Returned(last')}]_vars
    /\ [](last.op = "is_pending" /\ ~panicked
            => last.flag = (last.source \in pending_bits))

\* C6 witness: a claim returned a source, whose pending bit is clear, while
\* another source is still pending.
C6_ClaimClearedOne ==
    /\ last.op = "claim"
    /\ last.flag
    /\ Returned(last) \notin pending_bits
    /\ pending_bits # {}

\* C7 as stated: claim(ctx) returns every source that is enabled in ctx,
\* above its threshold and pending, and clears its pending bit.
C7_ClaimReturnsTheSource ==
    [][(last'.op = "claim" /\ ~panicked')
         => \A s \in Sources :
               Claimable(s, last'.context)
                  => (Returned(last') = s /\ s \notin pending_bits')]_vars

\* C7 amended: claim(ctx) returns s, and clears its pending bit, when s is
\* enabled in ctx, above its threshold and pending and every other such
\* source has a lower priority; a source in service is returned by no
\* claim; complete(ctx, s) by the context that claimed s ends the service,
\* so that s can be raised again.
C7_ClaimCompletePairing ==
    /\ [][(last'.op = "claim" /\ ~panicked')
            => \A s \in Sources :
                  (/\ Claimable(s, last'.context)
                   /\ \A t \in Sources \ {s} :
                         Claimable(t, last'.context)
                            => Gt(Word(priorities, s), Word(priorities, t)))
                     => (Returned(last') = s /\ s \notin pending_bits')]_vars
    /\ [][(last'.op = "claim" /\ last'.flag)
            => /\ \A c \in Contexts : <<Returned(last'), c>> \notin in_service
               /\ <<Returned(last'), last'.context>> \in in_service']_vars
    /\ [][(last'.op = "complete"
              /\ <<last'.source, last'.context>> \in in_service)
            => /\ \A c \in Contexts : <<last'.source, c>> \notin in_service'
               /\ last'.source \notin pending_bits']_vars

\* C7 witness: source 2 was claimed ahead of source 1, which stays pending
\* and claimable in the same context.
C7_HigherClaimedFirst ==
    /\ last.op = "claim"
    /\ Returned(last) = 2
    /\ <<2, last.context>> \in in_service
    /\ Claimable(1, last.context)

Quiescent == \A m \in Mutators : pc[m] = "idle"

\* the pairs whose enable bit is not what the last call for them asked for
LostUpdates ==
    {p \in DOMAIN want : (p[2] * 1024 + p[1] \in enables) # want[p]}

\* C9: the write of enable and disable stores the word the call read
\* earlier with its one bit changed, whatever was written to the word in
\* between; an update is lost only to a call on another bit of the same
\* word.
C9_ReadModifyWrite ==
    /\ [][\A m \in Mutators :
            (pc[m] = "write" /\ pc'[m] = "idle")
               => LET pos == call[m].context * 1024 + call[m].source
                  IN  Word(enables', pos \div 32) =
                         IF call[m].op = "enable"
                         THEN tmp[m] \cup {pos % 32}
                         ELSE tmp[m] \ {pos % 32}]_vars
    /\ [](Quiescent
            => \A p \in LostUpdates :
                  \E q \in DOMAIN want \ {p} :
                     /\ q[2] = p[2]
                     /\ (q[2] * 1024 + q[1]) \div 32
                           = (p[2] * 1024 + p[1]) \div 32)

\* C9 witness: both mutators have returned and an update is lost.
C9_UpdateLost == Quiescent /\ LostUpdates # {}

\* the enable words of the sources of a context
WordsOf(context) ==
    {EnablePos(a, context) \div U32_BITS : a \in 1 .. (COUNT_SOURCE - 1)}

\* no enable word holds bits of two of the first and last contexts
WordsDisjoint ==
    \A x, y \in {0, 1, 2, COUNT_CONTEXT - 2, COUNT_CONTEXT - 1} :
       x # y => WordsOf(x) \cap WordsOf(y) = {}

\* C10: no enable word holds bits of two contexts, and with one mutator
\* per context every enable bit is, once the mutators have returned, what
\* the last call for its pair asked for.
C10_OneMutatorPerContext ==
    /\ WordsDisjoint
    /\ \A m, n \in Mutators :
          (m # n /\ pc[m] = "write" /\ pc[n] = "write")
             => (call[m].context * 1024 + call[m].source) \div 32
                   # (call[n].context * 1024 + call[n].source) \div 32
    /\ Quiescent => LostUpdates = {}

\* C10 witness: both mutators, each in its second call, are between their
\* read and their write at once, on the adjacent words 31 and 32.
C10_AdjacentWordsInterleaved ==
    /\ \A m \in Mutators : pc[m] = "write" /\ ncalls[m] = MaxCalls
    /\ call[1].source = COUNT_SOURCE - 1
    /\ call[2].source = 1
    /\ 1023 \in enables

=============================================================================
